---- MODULE Spec2Model ----
(***************************************************************************)
(* The GLOF hazard map page (src/app.py): a Streamlit script that every    *)
(* viewer session of one server process runs top to bottom on each page    *)
(* load.  It loads a table through a process-wide cache, builds a folium   *)
(* map with one circle marker per row, saves the map to the fixed file     *)
(* hazard_map.html, reads the file back and embeds what it read.           *)
(*                                                                         *)
(* Real numbers are fixed-point integers counting 1/FP, so that area / 30  *)
(* and the colour stops 0, 0.25, 0.5, 0.75, 1 are exact.                   *)
(*                                                                         *)
(* Each session's run is a thread of the process; a step is one statement  *)
(* group of the script.  A call of the cached load_data is one step (the   *)
(* cache computes a missing entry under its lock), and so are m.save and   *)
(* the read of the file: the two are separate statements, and other        *)
(* sessions' steps may fall between them.  Colour channels are mixed in    *)
(* whole numbers.  Area and probability cells of the sample tables are     *)
(* numbers; only coordinates may be NaN.                                   *)
(***************************************************************************)
EXTENDS Integers, Sequences, FiniteSets, TLC

\* ------------------------------------------------------------ bounds
NumViewers == 2
MaxRows == 2
MaxReads == 3

\* ------------------------------------------------------------ numbers
FP == 10 * 30
R(n, d) == (n * FP) \div d

Max(a, b) == IF b > a THEN b ELSE a
Min(a, b) == IF b < a THEN b ELSE a

Pow10(d) == CASE d = 0 -> 1 [] d = 1 -> 10 [] d = 2 -> 100 [] d = 3 -> 1000 [] OTHER -> 10000

\* A numeric cell of the table: a number, or pandas' NaN for an empty cell.
Num(x) == [nan |-> FALSE, v |-> x]
NaN == [nan |-> TRUE, v |-> 0]

\* f"{x:.df}": the digits of x rounded to d decimals; 'nan' for NaN.
Fmt(x, d) ==
    IF x.nan THEN [s |-> "nan", digits |-> 0, dec |-> 0]
    ELSE [s |-> "f", digits |-> (2 * x.v * Pow10(d) + FP) \div (2 * FP), dec |-> d]

\* f"{x}" of a text cell.
Str(x) == [s |-> x, digits |-> 0, dec |-> 0]

\* ------------------------------------------------------------ the table
RequiredCols == {"Latitude", "Longitude", "Hazard_Prob"}
area_col == "Lake_area_calculated_ha"
NumericOptional ==
    {area_col, "Elevation_m", "glacier_area_ha", "nearest_glacier_dist_m",
     "5y_expansion_rate", "10y_expansion_rate"}
TextOptional == {"Lake_type_simplified", "GLOF"}
OptionalCols == NumericOptional \cup TextOptional
AllCols == RequiredCols \cup OptionalCols

\* row.get(col, default) and row[col] of a pandas Series.
Has(row, col) == col \in DOMAIN row
Get(row, col, default) == IF Has(row, col) THEN row[col] ELSE default

\* ------------------------------------------------------------ base maps
base_maps ==
    ("CartoDB Positron" :> "CartoDB.Positron") @@
    ("OpenStreetMap" :> "OpenStreetMap") @@
    ("CartoDB Dark Matter" :> "CartoDB.DarkMatter") @@
    ("Esri Satellite" :> "Esri.WorldImagery") @@
    ("Esri NatGeo" :> "Esri.NatGeoWorldMap") @@
    ("OpenTopoMap" :> "OpenTopoMap")

\* list(base_maps.keys()): a dict keeps insertion order.
options ==
    << "CartoDB Positron", "OpenStreetMap", "CartoDB Dark Matter",
       "Esri Satellite", "Esri NatGeo", "OpenTopoMap" >>

SelectIndex == 0
SliderMin == 5
SliderMax == 12
SliderDefault == 7

location == << R(282, 10), R(87, 1) >>

\* ------------------------------------------------------------ colour scale
green == << 0, 128, 0 >>
yellow == << 255, 255, 0 >>
orange == << 255, 165, 0 >>
red == << 255, 0, 0 >>
darkred == << 139, 0, 0 >>
colors == << green, yellow, orange, red, darkred >>
vmin == 0
vmax == 1

\* LinearColormap spreads the stops evenly over [vmin, vmax].
index(k) == vmin * FP + ((k - 1) * (vmax - vmin) * FP) \div (Len(colors) - 1)

Mix(c0, c1, k, w) == [ch \in 1..3 |-> ((w - k) * c0[ch] + k * c1[ch]) \div w]

\* A scale that keeps interpolating past its end stops instead of clamping.
colormap_unclamped(x) ==
    LET j == IF x <= index(1) THEN 2
             ELSE IF x >= index(Len(colors)) THEN Len(colors)
             ELSE 1 + Cardinality({k \in 1..Len(colors) : index(k) < x})
    IN  Mix(colors[j - 1], colors[j], x - index(j - 1), index(j) - index(j - 1))

\* colormap(x): the end colours outside the domain, linear between two stops inside.
colormap(x) ==
    IF x <= index(1) THEN colors[1]
    ELSE IF x >= index(Len(colors)) THEN colors[Len(colors)]
    ELSE LET j == 1 + Cardinality({k \in 1..Len(colors) : index(k) < x})
         IN  Mix(colors[j - 1], colors[j], x - index(j - 1), index(j) - index(j - 1))

\* ------------------------------------------------------------ marker encoding
RadiusMin == 3
RadiusMax == 10
AreaDivisor == 30
AreaDefault == R(5, 10)

\* The radius without its lower clamp.
radius_no_floor(area) == Min(area \div AreaDivisor, RadiusMax * FP)

radius(area) == Max(RadiusMin * FP, Min(area \div AreaDivisor, RadiusMax * FP))

popup_html(row, color, prob) ==
    [ Latitude |-> Fmt(Get(row, "Latitude", NaN), 4),
      Longitude |-> Fmt(Get(row, "Longitude", NaN), 4),
      LakeArea |-> Fmt(Get(row, "Lake_area_calculated_ha", Num(0)), 2),
      Elevation |-> Fmt(Get(row, "Elevation_m", Num(0)), 0),
      LakeType |-> Str(Get(row, "Lake_type_simplified", "N/A")),
      GlacierArea |-> Fmt(Get(row, "glacier_area_ha", Num(0)), 2),
      NearestGlacierDist |-> Fmt(Get(row, "nearest_glacier_dist_m", Num(0)), 0),
      Expansion5 |-> Fmt(Get(row, "5y_expansion_rate", Num(0)), 3),
      Expansion10 |-> Fmt(Get(row, "10y_expansion_rate", Num(0)), 3),
      GLOF |-> Str(Get(row, "GLOF", "N/A")),
      font_color |-> color,
      HazardProbability |-> Fmt(prob, 2) ]

\* folium.CircleMarker(...) of one row, once its fields were read.
CircleMarker(row, color, rad, label) ==
    [ location |-> << row["Latitude"], row["Longitude"] >>,
      radius |-> rad,
      fill_color |-> color,
      color |-> color,
      popup |-> label ]

\* ------------------------------------------------------------ inputs
Tbl(cols, rows) == [cols |-> cols, rows |-> rows]
NoTable == Tbl({}, << >>)

\* One CSV line under the header cols.
MkRow(cols, lat, lon, prob, area) ==
    [c \in cols |->
        CASE c = "Latitude" -> lat
          [] c = "Longitude" -> lon
          [] c = "Hazard_Prob" -> Num(prob)
          [] c = area_col -> Num(area)
          [] c = "Elevation_m" -> Num(R(5000, 1))
          [] c = "glacier_area_ha" -> Num(R(125, 10))
          [] c = "nearest_glacier_dist_m" -> Num(R(800, 1))
          [] c = "5y_expansion_rate" -> Num(R(3, 100))
          [] c = "10y_expansion_rate" -> Num(R(6, 100))
          [] c = "Lake_type_simplified" -> "Moraine-dammed"
          [] OTHER -> "No"]

\* (hazard probability, lake area in ha) of the sample lakes: below, on and
\* above both ends of the colour domain and of the radius clamp.
Samples ==
    { << R(-2, 10), R(0, 1) >>, << R(0, 1), R(30, 1) >>, << R(1, 10), R(90, 1) >>,
      << R(3, 10), R(150, 1) >>, << R(5, 10), R(2999, 10) >>, << R(9, 10), R(300, 1) >>,
      << R(1, 1), R(3001, 10) >>, << R(12, 10), R(600, 1) >> }

GoodLat == Num(R(280, 10))
GoodLon == Num(R(870, 10))

RowsOver(cols) ==
    { MkRow(cols, GoodLat, GoodLon, s[1], s[2]) : s \in Samples }
    \cup { MkRow(cols, NaN, GoodLon, R(5, 10), R(150, 1)),
           MkRow(cols, GoodLat, NaN, R(5, 10), R(150, 1)) }

SeqsUpTo(S, n) == UNION { [1..k -> S] : k \in 0..n }

\* Headers: every column, or every column but one.
Headers == { AllCols } \cup { AllCols \ {c} : c \in AllCols }

EncTables ==
    UNION { { Tbl(cols, rows) : rows \in SeqsUpTo(RowsOver(cols), MaxRows) } : cols \in Headers }

Lake1 == MkRow(AllCols, GoodLat, GoodLon, R(5, 10), R(30, 1))
SmallTables == { Tbl(AllCols, << >>), Tbl(AllCols, << Lake1 >>) }

Absent == [st |-> "absent", tbl |-> NoTable]
Bad == [st |-> "bad", tbl |-> NoTable]
Ok(t) == [st |-> "ok", tbl |-> t]
FileStates(tables) == { Absent, Bad } \cup { Ok(t) : t \in tables }
primary == "hazard_probabilities.csv"
secondary == "CSVs/hazard_probabilities.csv"

\* ------------------------------------------------------------ state
VARIABLES
    fs,               \* the two candidate input files
    cache,            \* st.cache_data's single entry for load_data: << >> or << table >>
    reads,            \* how often pd.read_csv opened an existing file
    hazard_map_html,  \* the file hazard_map.html: << >> or << document >>
    sessions,         \* the viewer sessions the process serves
    pc,               \* where each session's script run stands
    styleWidget,      \* the selectbox's state: << >> untouched, or << name >>
    zoomWidget,       \* the slider's state: << >> untouched, or << level >>
    hazard_df, selected_map, zoom_level, m, i, popup, map_html,
    page,             \* what the run put on the session's page
    err,              \* the exception that ended the run, "" if none
    wrote             \* whether this run saved hazard_map.html

shared == << fs, cache, reads, hazard_map_html, sessions >>
widgets == << styleWidget, zoomWidget >>
script == << hazard_df, selected_map, zoom_level, m, i, popup, map_html, page, err, wrote >>
vars == << shared, pc, widgets, script >>

BlankPage == [title |-> FALSE, html |-> << >>]

InitWith(S, files, documents) ==
    /\ sessions = S
    /\ fs \in files
    /\ cache = << >>
    /\ reads = 0
    /\ hazard_map_html \in documents
    /\ pc = [v \in S |-> "setup"]
    /\ styleWidget = [v \in S |-> << >>]
    /\ zoomWidget = [v \in S |-> << >>]
    /\ hazard_df = [v \in S |-> << >>]
    /\ selected_map = [v \in S |-> ""]
    /\ zoom_level = [v \in S |-> 0]
    /\ m = [v \in S |-> << >>]
    /\ i = [v \in S |-> 0]
    /\ popup = [v \in S |-> << >>]
    /\ map_html = [v \in S |-> << >>]
    /\ page = [v \in S |-> BlankPage]
    /\ err = [v \in S |-> ""]
    /\ wrote = [v \in S |-> FALSE]

\* ------------------------------------------------------------ 2. load dataset
\* A reader that takes a missing file for an empty table.
read_csv_missing_ok(file) ==
    CASE file.st = "ok" -> [exc |-> "", tbl |-> file.tbl, opened |-> 1]
      [] file.st = "bad" -> [exc |-> "ParserError", tbl |-> NoTable, opened |-> 1]
      [] OTHER -> [exc |-> "", tbl |-> NoTable, opened |-> 0]

\* pd.read_csv(path): the table, or the exception it raises.
read_csv(file) ==
    CASE file.st = "ok" -> [exc |-> "", tbl |-> file.tbl, opened |-> 1]
      [] file.st = "bad" -> [exc |-> "ParserError", tbl |-> NoTable, opened |-> 1]
      [] OTHER -> [exc |-> "FileNotFoundError", tbl |-> NoTable, opened |-> 0]

\* A body that falls back on any exception (a bare except).
load_data_body_any(files) ==
    LET first == read_csv(files[primary])
        second == read_csv(files[secondary])
    IN  IF first.exc # ""
        THEN [second EXCEPT !.opened = first.opened + second.opened]
        ELSE first

\* The body of load_data: the primary path, and the secondary one only when
\* the primary raised FileNotFoundError.
load_data_body(files) ==
    LET first == read_csv(files[primary])
        second == read_csv(files[secondary])
    IN  IF first.exc = "FileNotFoundError"
        THEN [second EXCEPT !.opened = first.opened + second.opened]
        ELSE first

\* load_data without the decorator: the body runs on every call.
load_data_uncached(entry, files) ==
    LET r == load_data_body(files)
    IN  [exc |-> r.exc, tbl |-> r.tbl, opened |-> r.opened,
         entry |-> IF r.exc = "" THEN << r.tbl >> ELSE entry]

\* @st.cache_data around it: a stored result is returned without running the
\* body; a result is stored when the body returns, not when it raises.
load_data(entry, files) ==
    IF entry # << >>
    THEN [exc |-> "", tbl |-> entry[1], opened |-> 0, entry |-> entry]
    ELSE LET r == load_data_body(files)
         IN  [exc |-> r.exc, tbl |-> r.tbl, opened |-> r.opened,
              entry |-> IF r.exc = "" THEN << r.tbl >> ELSE << >>]

\* ------------------------------------------------------------ the script run
\* 1. Page setup.
PageSetup(v) ==
    /\ pc[v] = "setup"
    /\ page' = [page EXCEPT ![v].title = TRUE]
    /\ pc' = [pc EXCEPT ![v] = "load"]
    /\ UNCHANGED << shared, widgets, hazard_df, selected_map, zoom_level, m, i,
                    popup, map_html, err, wrote >>

\* 2. hazard_df = load_data(): an exception ends the run.
LoadData(v) ==
    /\ pc[v] = "load"
    /\ LET r == load_data(cache, fs)
       IN  /\ reads + r.opened <= MaxReads
           /\ reads' = reads + r.opened
           /\ cache' = r.entry
           /\ hazard_df' = [hazard_df EXCEPT ![v] = IF r.exc = "" THEN << r.tbl >> ELSE << >>]
           /\ err' = [err EXCEPT ![v] = r.exc]
           /\ pc' = [pc EXCEPT ![v] = IF r.exc = "" THEN "sidebar" ELSE "failed"]
    /\ UNCHANGED << fs, hazard_map_html, sessions, widgets, selected_map, zoom_level,
                    m, i, popup, map_html, page, wrote >>

\* 3. The sidebar's controls return the viewer's choice, or their default.
selectbox(state) == IF state = << >> THEN options[SelectIndex + 1] ELSE state[1]
slider(state) == IF state = << >> THEN SliderDefault ELSE state[1]

Sidebar(v) ==
    /\ pc[v] = "sidebar"
    /\ selected_map' = [selected_map EXCEPT ![v] = selectbox(styleWidget[v])]
    /\ zoom_level' = [zoom_level EXCEPT ![v] = slider(zoomWidget[v])]
    /\ pc' = [pc EXCEPT ![v] = "map"]
    /\ UNCHANGED << shared, widgets, hazard_df, m, i, popup, map_html, page, err, wrote >>

\* 4. folium.Map, the colour legend and the marker cluster.
\* A map handed the style's display name for its tiles, the lookup forgotten.
Map_no_lookup(style, zoom) ==
    [ location |-> location,
      zoom_start |-> zoom,
      tiles |-> style,
      attr |-> "(c) OpenStreetMap contributors",
      caption |-> "Hazard Probability",
      marker_cluster |-> << >> ]

Map(style, zoom) ==
    [ location |-> location,
      zoom_start |-> zoom,
      tiles |-> base_maps[style],
      attr |-> "(c) OpenStreetMap contributors",
      caption |-> "Hazard Probability",
      marker_cluster |-> << >> ]

CreateMap(v) ==
    /\ pc[v] = "map"
    /\ m' = [m EXCEPT ![v] = << Map(selected_map[v], zoom_level[v]) >>]
    /\ i' = [i EXCEPT ![v] = 1]
    /\ pc' = [pc EXCEPT ![v] = "loop"]
    /\ UNCHANGED << shared, widgets, hazard_df, selected_map, zoom_level, popup,
                    map_html, page, err, wrote >>

\* 5. One pass of the loop body over a row, the cluster so far given: every way
\* it can end, as [exc, popup, cluster].  row["Hazard_Prob"] and the marker's
\* row["Latitude"], row["Longitude"] raise KeyError on a missing column; the
\* label is built in between.  CircleMarker is handed the coordinates as they
\* are: on a NaN, folium either rejects the location (ValueError) or, in
\* releases without that validation, takes it.
LocationErrors(lat, lon) == IF lat.nan \/ lon.nan THEN { "ValueError", "" } ELSE { "" }

\* A loop body that passes over a row whose coordinate is NaN.
Iteration_skip_null(row, cluster) ==
    IF ~Has(row, "Hazard_Prob")
    THEN { [exc |-> "KeyError", popup |-> << >>, cluster |-> cluster] }
    ELSE LET prob == row["Hazard_Prob"]
             area == Get(row, area_col, Num(AreaDefault))
             color == colormap(prob.v)
             label == popup_html(row, color, prob)
         IN  IF ~Has(row, "Latitude") \/ ~Has(row, "Longitude")
             THEN { [exc |-> "KeyError", popup |-> << label >>, cluster |-> cluster] }
             ELSE { [exc |-> "", popup |-> << label >>,
                     cluster |-> IF row["Latitude"].nan \/ row["Longitude"].nan THEN cluster
                                 ELSE Append(cluster, CircleMarker(row, color, radius(area.v), label))] }

\* A loop body that reads every column with row[col].
Iteration_strict(row, cluster) ==
    IF AllCols \ DOMAIN row # {}
    THEN { [exc |-> "KeyError", popup |-> << >>, cluster |-> cluster] }
    ELSE LET prob == row["Hazard_Prob"]
             color == colormap(prob.v)
             label == popup_html(row, color, prob)
         IN  { [exc |-> e, popup |-> << label >>,
                cluster |-> IF e = "" THEN Append(cluster, CircleMarker(row, color, radius(row[area_col].v), label))
                            ELSE cluster] :
               e \in LocationErrors(row["Latitude"], row["Longitude"]) }

Iteration(row, cluster) ==
    IF ~Has(row, "Hazard_Prob")
    THEN { [exc |-> "KeyError", popup |-> << >>, cluster |-> cluster] }
    ELSE LET prob == row["Hazard_Prob"]
             area == Get(row, area_col, Num(AreaDefault))
             color == colormap(prob.v)
             rad == radius(area.v)
             label == popup_html(row, color, prob)
         IN  IF ~Has(row, "Latitude") \/ ~Has(row, "Longitude")
             THEN { [exc |-> "KeyError", popup |-> << label >>, cluster |-> cluster] }
             ELSE { [exc |-> e, popup |-> << label >>,
                     cluster |-> IF e = "" THEN Append(cluster, CircleMarker(row, color, rad, label))
                                 ELSE cluster] :
                    e \in LocationErrors(row["Latitude"], row["Longitude"]) }

AddMarker(v) ==
    /\ pc[v] = "loop"
    /\ i[v] <= Len(hazard_df[v][1].rows)
    /\ \E out \in Iteration(hazard_df[v][1].rows[i[v]], m[v][1].marker_cluster) :
          /\ m' = [m EXCEPT ![v] = << [m[v][1] EXCEPT !.marker_cluster = out.cluster] >>]
          /\ popup' = [popup EXCEPT ![v] = IF out.popup = << >> THEN popup[v] ELSE out.popup]
          /\ err' = [err EXCEPT ![v] = out.exc]
          /\ i' = [i EXCEPT ![v] = IF out.exc = "" THEN i[v] + 1 ELSE i[v]]
          /\ pc' = [pc EXCEPT ![v] = IF out.exc = "" THEN "loop" ELSE "failed"]
    /\ UNCHANGED << shared, widgets, hazard_df, selected_map, zoom_level, map_html,
                    page, wrote >>

EndLoop(v) ==
    /\ pc[v] = "loop"
    /\ i[v] > Len(hazard_df[v][1].rows)
    /\ pc' = [pc EXCEPT ![v] = "save"]
    /\ UNCHANGED << shared, widgets, script >>

\* 6. m.save("hazard_map.html"): the page document of the map, written over
\* whatever the file held.
Document(map) ==
    [ tiles |-> map.tiles, zoom |-> map.zoom_start, center |-> map.location,
      attr |-> map.attr, legend |-> map.caption, markers |-> map.marker_cluster ]

Save(v) ==
    /\ pc[v] = "save"
    /\ hazard_map_html' = << Document(m[v][1]) >>
    /\ wrote' = [wrote EXCEPT ![v] = TRUE]
    /\ pc' = [pc EXCEPT ![v] = "read"]
    /\ UNCHANGED << fs, cache, reads, sessions, widgets, hazard_df, selected_map,
                    zoom_level, m, i, popup, map_html, page, err >>

\* 7. open("hazard_map.html").read(), then st.components.v1.html(map_html).
ReadBack(v) ==
    /\ pc[v] = "read"
    /\ map_html' = [map_html EXCEPT ![v] = hazard_map_html]
    /\ pc' = [pc EXCEPT ![v] = "embed"]
    /\ UNCHANGED << shared, widgets, hazard_df, selected_map, zoom_level, m, i,
                    popup, page, err, wrote >>

Embed(v) ==
    /\ pc[v] = "embed"
    /\ page' = [page EXCEPT ![v].html = map_html[v]]
    /\ pc' = [pc EXCEPT ![v] = "done"]
    /\ UNCHANGED << shared, widgets, hazard_df, selected_map, zoom_level, m, i,
                    popup, map_html, err, wrote >>

\* ------------------------------------------------------------ reruns
\* A new run of the script starts from fresh script variables and a fresh page;
\* the widgets' state, the cache and the files stay.
Restart(v) ==
    /\ pc' = [pc EXCEPT ![v] = "setup"]
    /\ hazard_df' = [hazard_df EXCEPT ![v] = << >>]
    /\ selected_map' = [selected_map EXCEPT ![v] = ""]
    /\ zoom_level' = [zoom_level EXCEPT ![v] = 0]
    /\ m' = [m EXCEPT ![v] = << >>]
    /\ i' = [i EXCEPT ![v] = 0]
    /\ popup' = [popup EXCEPT ![v] = << >>]
    /\ map_html' = [map_html EXCEPT ![v] = << >>]
    /\ page' = [page EXCEPT ![v] = BlankPage]
    /\ err' = [err EXCEPT ![v] = ""]
    /\ wrote' = [wrote EXCEPT ![v] = FALSE]

Finished(v) == pc[v] \in { "done", "failed" }

\* The viewer reloads the page.
Rerun(v) ==
    /\ Finished(v)
    /\ Restart(v)
    /\ UNCHANGED << shared, widgets >>

\* The viewer picks a base map in the sidebar (drawn once the run got there).
SelectStyle(v, s) ==
    /\ Finished(v)
    /\ selected_map[v] # ""
    /\ s # selected_map[v]
    /\ styleWidget' = [styleWidget EXCEPT ![v] = << s >>]
    /\ Restart(v)
    /\ UNCHANGED << shared, zoomWidget >>

\* The viewer moves the zoom slider.
SlideZoom(v, z) ==
    /\ Finished(v)
    /\ selected_map[v] # ""
    /\ z # zoom_level[v]
    /\ zoomWidget' = [zoomWidget EXCEPT ![v] = << z >>]
    /\ Restart(v)
    /\ UNCHANGED << shared, styleWidget >>

\* ------------------------------------------------------------ the input files change
PutFile(path, file) ==
    /\ fs[path] # file
    /\ fs' = [fs EXCEPT ![path] = file]
    /\ UNCHANGED << cache, reads, hazard_map_html, sessions, pc, widgets, script >>

\* ------------------------------------------------------------ specifications
FilesOver(tables) == [ { primary, secondary } -> FileStates(tables) ]
PrimaryOnly(tables) == { (primary :> Ok(t)) @@ (secondary :> Absent) : t \in tables }

\* Several viewers at once, each with its own base map and zoom level.
ViewerStyles == { "CartoDB Positron", "Esri Satellite" }
ViewerZooms == { SliderDefault, SliderMax }

Init == InitWith(1..NumViewers, PrimaryOnly(SmallTables), { << >> })

Next ==
    \/ \E v \in sessions : PageSetup(v)
    \/ \E v \in sessions : LoadData(v)
    \/ \E v \in sessions : Sidebar(v)
    \/ \E v \in sessions : CreateMap(v)
    \/ \E v \in sessions : AddMarker(v)
    \/ \E v \in sessions : EndLoop(v)
    \/ \E v \in sessions : Save(v)
    \/ \E v \in sessions : ReadBack(v)
    \/ \E v \in sessions : Embed(v)
    \/ \E v \in sessions : Rerun(v)
    \/ \E v \in sessions, s \in ViewerStyles : SelectStyle(v, s)
    \/ \E v \in sessions, z \in ViewerZooms : SlideZoom(v, z)

Spec == Init /\ [][Next]_vars

\* Page loads while the input files come, go and change.
\* A document an earlier process left in the working directory.
StaleDocument == Document(Map("OpenTopoMap", SliderMin))

InitLoad == InitWith(1..NumViewers, FilesOver(SmallTables), { << >>, << StaleDocument >> })

NextLoad ==
    \/ \E v \in sessions : PageSetup(v)
    \/ \E v \in sessions : LoadData(v)
    \/ \E v \in sessions : Sidebar(v)
    \/ \E v \in sessions : CreateMap(v)
    \/ \E v \in sessions : AddMarker(v)
    \/ \E v \in sessions : EndLoop(v)
    \/ \E v \in sessions : Save(v)
    \/ \E v \in sessions : ReadBack(v)
    \/ \E v \in sessions : Embed(v)
    \/ \E v \in sessions : Rerun(v)
    \/ \E path \in { primary, secondary }, file \in FileStates(SmallTables) : PutFile(path, file)

SpecLoad == InitLoad /\ [][NextLoad]_vars

\* One viewer, every table of the sample lakes.
InitEnc == InitWith({ 1 }, PrimaryOnly(EncTables), { << >> })

NextEnc ==
    \/ \E v \in sessions : PageSetup(v)
    \/ \E v \in sessions : LoadData(v)
    \/ \E v \in sessions : Sidebar(v)
    \/ \E v \in sessions : CreateMap(v)
    \/ \E v \in sessions : AddMarker(v)
    \/ \E v \in sessions : EndLoop(v)
    \/ \E v \in sessions : Save(v)
    \/ \E v \in sessions : ReadBack(v)
    \/ \E v \in sessions : Embed(v)
    \/ \E v \in sessions : Rerun(v)

SpecEnc == InitEnc /\ [][NextEnc]_vars

\* One viewer, every choice the sidebar offers.
InitCfg == InitWith({ 1 }, PrimaryOnly(SmallTables), { << >> })

NextCfg ==
    \/ \E v \in sessions : PageSetup(v)
    \/ \E v \in sessions : LoadData(v)
    \/ \E v \in sessions : Sidebar(v)
    \/ \E v \in sessions : CreateMap(v)
    \/ \E v \in sessions : AddMarker(v)
    \/ \E v \in sessions : EndLoop(v)
    \/ \E v \in sessions : Save(v)
    \/ \E v \in sessions : ReadBack(v)
    \/ \E v \in sessions : Embed(v)
    \/ \E v \in sessions : Rerun(v)
    \/ \E v \in sessions, s \in DOMAIN base_maps : SelectStyle(v, s)
    \/ \E v \in sessions, z \in SliderMin..SliderMax : SlideZoom(v, z)

SpecCfg == InitCfg /\ [][NextCfg]_vars

\* ------------------------------------------------------------ claims
Rows(v) == hazard_df[v][1].rows
Cols(v) == hazard_df[v][1].cols
Cluster(v) == m[v][1].marker_cluster
LoadStep(v) == pc[v] = "load" /\ pc'[v] # "load"
LoopDone(v) == pc[v] \in { "save", "read", "embed", "done" }

\* C1: whatever the interleaving, the document a viewer's page embeds is the
\* document of that viewer's own map (its style, zoom and markers).
C1_OwnDocument ==
    \A v \in sessions :
        page[v].html # << >> => page[v].html = << Document(m[v][1]) >>

\* C2: a load fails exactly when neither path holds a parseable table, and
\* returns the primary's table whenever the primary is parseable.
C2_FailsIffNeitherParseable ==
    [][\A v \in sessions :
          LoadStep(v) =>
            /\ pc'[v] = "failed" <=> (fs[primary].st # "ok" /\ fs[secondary].st # "ok")
            /\ fs[primary].st = "ok" => hazard_df'[v] = << fs[primary].tbl >>]_vars

\* C2 amended: with nothing cached, a load returns the primary's table when the
\* primary parses, the secondary's when the primary is absent and the secondary
\* parses, and fails otherwise: a primary that is there but does not parse ends
\* the load with its own error, the secondary untried.  With a table cached the
\* load returns it whatever the files are.
C2_FallbackOnlyWhenAbsent ==
    [][\A v \in sessions :
          LoadStep(v) =>
            IF cache # << >>
            THEN pc'[v] # "failed" /\ hazard_df'[v] = cache
            ELSE CASE fs[primary].st = "ok" ->
                        pc'[v] # "failed" /\ hazard_df'[v] = << fs[primary].tbl >>
                   [] fs[primary].st = "bad" ->
                        pc'[v] = "failed" /\ err'[v] = "ParserError" /\ hazard_df'[v] = << >>
                   [] fs[primary].st = "absent" /\ fs[secondary].st = "ok" ->
                        pc'[v] # "failed" /\ hazard_df'[v] = << fs[secondary].tbl >>
                   [] OTHER ->
                        pc'[v] = "failed" /\ hazard_df'[v] = << >>]_vars

\* A load that failed on an unparseable primary while the secondary parses.
C2_Witness ==
    \E v \in sessions :
        /\ pc[v] = "failed" /\ err[v] = "ParserError"
        /\ fs[primary].st = "bad" /\ fs[secondary].st = "ok"
        /\ cache = << >>

NeitherExists == fs[primary].st = "absent" /\ fs[secondary].st = "absent"
Aborted(v) ==
    /\ pc[v] = "failed" /\ err[v] = "FileNotFoundError"
    /\ m[v] = << >> /\ ~wrote[v] /\ map_html[v] = << >> /\ page[v].html = << >>

\* C3: a render that loads while neither input path exists aborts with the
\* data-unavailable error: no marker, no write of hazard_map.html, nothing embedded.
C3_AbortsWhenNeitherExists ==
    [][\A v \in sessions :
          (LoadStep(v) /\ NeitherExists) =>
            (Aborted(v)' /\ hazard_map_html' = hazard_map_html)]_vars

\* C3 amended: the same, for a render that finds no table cached by an earlier load.
C3_AbortsWhenNothingCached ==
    [][\A v \in sessions :
          (LoadStep(v) /\ NeitherExists /\ cache = << >>) =>
            (Aborted(v)' /\ hazard_map_html' = hazard_map_html)]_vars

\* An aborted render that left an earlier document in place.
C3_Witness ==
    \E v \in sessions :
        /\ Aborted(v) /\ NeitherExists
        /\ hazard_map_html = << StaleDocument >>

CacheKept ==
    [][/\ cache # << >> => (cache' = cache /\ reads' = reads)
       /\ \A v \in sessions :
            (LoadStep(v) /\ cache # << >>) => (pc'[v] # "failed" /\ hazard_df'[v] = cache)]_vars

\* C4: the input file is read at most once in the process; after the first
\* load every render gets the cached table without a file access, and no step
\* changes the cached table.
C4_ReadAtMostOnce == [](reads <= 1) /\ CacheKept

\* C4 amended: the input is loaded successfully at most once: a load that
\* raised caches nothing, so the next render reads the files again; once a load
\* returned, every later render gets the cached table without a file access,
\* and no step changes the cached table.
C4_LoadedAtMostOnce ==
    [][/\ cache # << >> => (cache' = cache /\ reads' = reads)
       /\ (cache = << >> /\ cache' # << >>) => reads' = reads + 1
       /\ \A v \in sessions :
            /\ (LoadStep(v) /\ cache # << >>) => (pc'[v] # "failed" /\ hazard_df'[v] = cache)
            /\ (LoadStep(v) /\ pc'[v] = "failed") => cache' = << >>
            /\ hazard_df'[v] # << >> => hazard_df'[v] = cache']_vars

\* Two sessions hold the table of a single read, the input files gone since.
C4_Witness ==
    \E v, w \in sessions :
        /\ v # w /\ cache # << >> /\ reads = 1
        /\ hazard_df[v] = cache /\ hazard_df[w] = cache
        /\ NeitherExists

Coordinate(row, col) == Has(row, col) /\ ~row[col].nan
Placeable(row) == Coordinate(row, "Latitude") /\ Coordinate(row, "Longitude")
NumPlaceable(rows) == Cardinality({ k \in 1..Len(rows) : Placeable(rows[k]) })
Embedded(v) ==
    /\ pc[v] = "done" /\ wrote[v]
    /\ page[v].html # << >>
    /\ page[v].html[1].tiles = m[v][1].tiles

\* C5: a completed render has as many markers as the table has rows with both
\* coordinates non-null; a row with a null coordinate adds no marker and does
\* not stop the render; an empty table gives no marker and a document still
\* written and embedded.
C5_MarkersEqualPlaceableRows ==
    \A v \in sessions :
        /\ LoopDone(v) => Len(Cluster(v)) = NumPlaceable(Rows(v))
        /\ (pc[v] = "failed" /\ hazard_df[v] # << >>) => err[v] # "ValueError"
        /\ (pc[v] = "done" /\ Rows(v) = << >>) => (Embedded(v) /\ page[v].html[1].markers = << >>)

\* C5 amended: the loop passes over no row: while it runs the cluster holds one
\* marker per row done, and a completed render has as many markers as the table
\* has rows.  A row with a null coordinate goes to CircleMarker like any other
\* and either stops the render there (nothing written, nothing embedded) or
\* gets a marker.  An empty table gives no marker and a document still written
\* and embedded.
C5_OneMarkerPerRow ==
    \A v \in sessions :
        /\ pc[v] = "loop" => Len(Cluster(v)) = i[v] - 1
        /\ LoopDone(v) => Len(Cluster(v)) = Len(Rows(v))
        /\ (pc[v] = "failed" /\ err[v] = "ValueError") =>
              /\ ~Placeable(Rows(v)[i[v]])
              /\ Len(Cluster(v)) = i[v] - 1
              /\ ~wrote[v] /\ page[v].html = << >>
        /\ (pc[v] = "done" /\ Rows(v) = << >>) => (Embedded(v) /\ page[v].html[1].markers = << >>)
        /\ pc[v] = "done" => page[v].html[1].markers = Cluster(v)

\* A completed render of a table of several rows, one marker each.
C5_Witness ==
    \E v \in sessions :
        /\ pc[v] = "done" /\ Len(Rows(v)) >= 2
        /\ \A k \in 1..Len(Rows(v)) : Placeable(Rows(v)[k])
        /\ Len(page[v].html[1].markers) = Len(Rows(v))

\* C6: a table without one of Latitude, Longitude, Hazard_Prob fails the render
\* before any marker and any write, whatever its rows (none included): the loop
\* is never got through, no marker and so no label of a marker exists, and
\* hazard_map.html is not written.
C6_FailsFastOnMissingRequired ==
    \A v \in sessions :
        (hazard_df[v] # << >> /\ ~(RequiredCols \subseteq Cols(v))) =>
            /\ ~LoopDone(v)
            /\ ~wrote[v]
            /\ m[v] # << >> => Cluster(v) = << >>

Area(row) == Get(row, area_col, Num(AreaDefault)).v

\* C7: for every lake area a >= 0 the marker's radius is clamp(a/30, 3, 10):
\* 3 up to a = 90, a/30 from 90 to 300, 10 from a = 300 on; so it lies in
\* [3, 10] and never decreases as the area grows.
C7_RadiusClamped ==
    \A v \in sessions :
        m[v] # << >> =>
            \A k \in 1..Len(Cluster(v)) :
                LET a == Area(Rows(v)[k])
                    r == Cluster(v)[k].radius
                IN  a >= 0 =>
                      /\ 3 * FP <= r /\ r <= 10 * FP
                      /\ a <= 90 * FP => r = 3 * FP
                      /\ (90 * FP <= a /\ a <= 300 * FP) => 30 * r = a
                      /\ a >= 300 * FP => r = 10 * FP
                      /\ \A j \in 1..Len(Cluster(v)) :
                            Area(Rows(v)[j]) <= a => Cluster(v)[j].radius <= r

\* Markers at the floor (area 30 ha) and strictly inside the clamp (area 150 ha).
C7_Witness ==
    \E v \in sessions :
        /\ m[v] # << >> /\ Len(Cluster(v)) = 2
        /\ Area(Rows(v)[1]) = 30 * FP /\ Cluster(v)[1].radius = 3 * FP
        /\ Area(Rows(v)[2]) = 150 * FP /\ Cluster(v)[2].radius = 5 * FP

\* How far along green, yellow, orange, red, darkred a colour lies: red rises
\* up to yellow, green falls from yellow to red, red falls from red to darkred.
Warmth(c) ==
    IF c[2] > 0 /\ c[1] < 255 THEN c[1]
    ELSE IF c[1] = 255 THEN 255 + (255 - c[2])
    ELSE 510 + (255 - c[1])

\* C8: the colour of a marker is green at probability 0 and below, darkred at 1
\* and above, and never less warm for a higher probability; a probability
\* outside [0,1] stops no render; outline, fill and the label's hazard line
\* carry the same colour.
C8_ColorScale ==
    \A v \in sessions :
        /\ m[v] # << >> =>
              \A k \in 1..Len(Cluster(v)) :
                  LET p == Rows(v)[k]["Hazard_Prob"].v
                      mk == Cluster(v)[k]
                  IN  /\ p <= 0 => mk.color = << 0, 128, 0 >>
                      /\ p >= FP => mk.color = << 139, 0, 0 >>
                      /\ mk.fill_color = mk.color
                      /\ mk.popup.font_color = mk.color
                      /\ \A j \in 1..Len(Cluster(v)) :
                            Rows(v)[j]["Hazard_Prob"].v <= p =>
                                Warmth(Cluster(v)[j].color) <= Warmth(mk.color)
        /\ (pc[v] = "failed" /\ hazard_df[v] # << >>) =>
              ~(RequiredCols \subseteq Cols(v)) \/ ~Placeable(Rows(v)[i[v]])

\* A marker of probability 1.2 drawn darkred beside one strictly inside the scale.
C8_Witness ==
    \E v \in sessions :
        /\ pc[v] = "done" /\ Len(Cluster(v)) = 2
        /\ Rows(v)[1]["Hazard_Prob"].v = R(3, 10)
        /\ Rows(v)[2]["Hazard_Prob"].v = R(12, 10)
        /\ Cluster(v)[2].color = darkred
        /\ Warmth(Cluster(v)[1].color) > 255 /\ Warmth(Cluster(v)[1].color) < 345

Shown(digits, dec) == [s |-> "f", digits |-> digits, dec |-> dec]
Text(t) == [s |-> t, digits |-> 0, dec |-> 0]

\* C9: a missing optional column fails no render: with the required columns
\* there and every coordinate non-null, every row gets a marker, its label
\* shows the default of each missing field (0.00, 0, N/A, 0.000), and without the
\* lake-area column the radius is that of the default area 0.5, which is 3.
C9_OptionalDefaults ==
    \A v \in sessions :
        (/\ hazard_df[v] # << >>
         /\ RequiredCols \subseteq Cols(v)
         /\ \A k \in 1..Len(Rows(v)) : Placeable(Rows(v)[k])) =>
            /\ pc[v] # "failed"
            /\ LoopDone(v) => Len(Cluster(v)) = Len(Rows(v))
            /\ m[v] # << >> =>
                  \A k \in 1..Len(Cluster(v)) :
                      LET mk == Cluster(v)[k]
                          missing(c) == c \notin Cols(v)
                      IN  /\ missing("Lake_area_calculated_ha") =>
                                (mk.popup.LakeArea = Shown(0, 2) /\ mk.radius = 3 * FP)
                          /\ missing("Elevation_m") => mk.popup.Elevation = Shown(0, 0)
                          /\ missing("Lake_type_simplified") => mk.popup.LakeType = Text("N/A")
                          /\ missing("glacier_area_ha") => mk.popup.GlacierArea = Shown(0, 2)
                          /\ missing("nearest_glacier_dist_m") =>
                                mk.popup.NearestGlacierDist = Shown(0, 0)
                          /\ missing("5y_expansion_rate") => mk.popup.Expansion5 = Shown(0, 3)
                          /\ missing("10y_expansion_rate") => mk.popup.Expansion10 = Shown(0, 3)
                          /\ missing("GLOF") => mk.popup.GLOF = Text("N/A")

\* A completed render of a table without the lake-area column.
C9_Witness ==
    \E v \in sessions :
        /\ pc[v] = "done" /\ Len(Rows(v)) = 2
        /\ area_col \notin Cols(v)
        /\ Len(page[v].html[1].markers) = 2
        /\ page[v].html[1].markers[2].radius = 3 * FP
        /\ page[v].html[1].markers[2].popup.LakeArea = Shown(0, 2)

TileSources ==
    { "CartoDB.Positron", "OpenStreetMap", "CartoDB.DarkMatter",
      "Esri.WorldImagery", "Esri.NatGeoWorldMap", "OpenTopoMap" }

\* C10: every map is built from one of the six styles (CartoDB Positron unless
\* the viewer chose another) and that style's tile source, an integer zoom in
\* 5..12 (7 unless the viewer chose another), and the centre (28.2, 87.0).
C10_BaseMapWellFormed ==
    \A v \in sessions :
        m[v] # << >> =>
            LET map == m[v][1]
            IN  /\ selected_map[v] \in { options[k] : k \in 1..6 }
                /\ map.tiles \in TileSources
                /\ map.tiles = base_maps[selected_map[v]]
                /\ map.zoom_start \in 5..12
                /\ map.location = << R(282, 10), R(87, 1) >>
                /\ styleWidget[v] = << >> => map.tiles = "CartoDB.Positron"
                /\ styleWidget[v] # << >> => selected_map[v] = styleWidget[v][1]
                /\ zoomWidget[v] = << >> => map.zoom_start = 7
                /\ zoomWidget[v] # << >> => map.zoom_start = zoomWidget[v][1]
                /\ page[v].html # << >> =>
                      /\ page[v].html[1].tiles = map.tiles
                      /\ page[v].html[1].zoom = map.zoom_start
                      /\ page[v].html[1].center = map.location

\* A page embedding a satellite map at the highest zoom.
C10_Witness ==
    \E v \in sessions :
        /\ pc[v] = "done"
        /\ styleWidget[v] = << "Esri Satellite" >> /\ zoomWidget[v] = << 12 >>
        /\ page[v].html[1].tiles = "Esri.WorldImagery" /\ page[v].html[1].zoom = 12

====
